---- MODULE Spec2Model ----
(***************************************************************************)
(* Client-side session lifecycle of the FastAPI auth front-end.            *)
(*                                                                         *)
(* Two clients share one origin's localStorage:                            *)
(*   - the multi-page client (login, register, logout, refresh, logoutAll, *)
(*     loadProfile, updateProfile) keeps its tokens under "access_token"   *)
(*     and "refresh_token";                                                *)
(*   - the single-page client of app.js (window.login, window.register,    *)
(*     window.getProfile, window.logout, window.showPage) keeps its token  *)
(*     under "access".                                                     *)
(* A browsing session runs one client: loading the other client's page     *)
(* unloads this one, and only localStorage survives the reload.            *)
(* Every async handler is split at its await points: the call (up to the   *)
(* first await), the continuation after `await fetch`, and the             *)
(* continuation after `await res.json()`.  The remote API is external: the *)
(* outcome of each request is chosen nondeterministically.                 *)
(***************************************************************************)
EXTENDS Naturals, Sequences, FiniteSets

VARIABLES
    client,         \* which client's pages this session runs: "pages" or "spa"
    localStorage,   \* key -> stored string, or Null when the key is absent
    calls,          \* every invocation of an async handler, in call order
    requests,       \* every HTTP request handed to fetch, in issue order
    text,           \* textContent / innerText of the output elements
    alerts,         \* messages passed to alert(), in order
    href,           \* last value assigned to window.location.href
    display,        \* style.display of each .page section
    lastLogout      \* history, recorded in SpecHistory only: whether logout
                    \* has run, and how many calls had been made when it last did

vars ==
    <<client, localStorage, calls, requests, text, alerts, href, display,
      lastLogout>>

----------------------------------------------------------------------------
(* Bounds *)

\* Total number of async handler invocations in one behaviour.
MaxCalls == 2

----------------------------------------------------------------------------
(* JavaScript values *)

\* null (getItem of a missing key) and undefined (a missing property).
Null == "<null>"
Undefined == "<undefined>"

\* String(v): what setItem and string concatenation make of a value.
StringOf(v) ==
    IF v = Undefined THEN "undefined"
    ELSE IF v = Null THEN "null"
    ELSE v

\* JSON.stringify of a property value inside a request body.
JSONValue(v) ==
    IF v = Null THEN "null" ELSE "'" \o v \o "'"

\* One property of a stringified object; undefined properties are omitted.
JSONField(k, v) ==
    IF v = Undefined THEN "" ELSE k \o ":" \o JSONValue(v) \o ";"

\* JSON.stringify(data, null, 2) of a parsed response body.
JSONstringify(d) ==
    "{" \o JSONField("access_token", d.access_token)
        \o JSONField("refresh_token", d.refresh_token)
        \o JSONField("detail", d.detail) \o "}"

----------------------------------------------------------------------------
(* localStorage *)

Keys == {"access", "access_token", "refresh_token"}

getItem(store, k) == store[k]

setItem(store, k, v) == [store EXCEPT ![k] = StringOf(v)]

\* A clear that forgets one entry.
clear_keepsRefresh(store) ==
    [k \in Keys |-> IF k = "refresh_token" THEN store[k] ELSE Null]

clear(store) == [k \in Keys |-> Null]

----------------------------------------------------------------------------
(* The remote API: what a request can be answered with *)

AccessTokens == {"AT1", "AT2"}
RefreshTokens == {"RT1", "RT2"}
LoginPairs == {<<"AT1", "RT1">>, <<"AT2", "RT2">>}

NoRes ==
    [status |-> 0, json |-> FALSE, access_token |-> Undefined,
     refresh_token |-> Undefined, detail |-> Undefined]

\* 200 {access_token, refresh_token}
LoginOK ==
    {[status |-> 200, json |-> TRUE, access_token |-> p[1],
      refresh_token |-> p[2], detail |-> Undefined] : p \in LoginPairs}

\* 200 {access_token}
RefreshOK ==
    {[status |-> 200, json |-> TRUE, access_token |-> a,
      refresh_token |-> Undefined, detail |-> Undefined] : a \in AccessTokens}

\* 200 with some other JSON body (a profile, a confirmation)
PlainOK ==
    {[status |-> 200, json |-> TRUE, access_token |-> Undefined,
      refresh_token |-> Undefined, detail |-> "ok"]}

\* a non-success status with a JSON error body
Failure ==
    {[status |-> 401, json |-> TRUE, access_token |-> Undefined,
      refresh_token |-> Undefined, detail |-> "denied"]}

\* a non-success status whose body is not JSON
NonJSON ==
    {[status |-> 500, json |-> FALSE, access_token |-> Undefined,
      refresh_token |-> Undefined, detail |-> Undefined]}

Responses(path) ==
    (IF path = "/auth/login" THEN LoginOK
     ELSE IF path = "/auth/refresh" THEN RefreshOK
     ELSE PlainOK) \cup Failure \cup NonJSON

Success(r) == r.status = 200

----------------------------------------------------------------------------
(* Form inputs *)

Emails == {"a@b.com"}
Passwords == {"pw"}
Usernames == {"alice"}

----------------------------------------------------------------------------
(* Pages of the single-page client *)

Pages == {"home", "login", "register", "tools"}
Elements == {"loginResponse", "registerResponse", "toolsResponse", "info"}

\* showPage(id): hide every .page, then show the one named id.
showPage(id) == [p \in Pages |-> IF p = id THEN "block" ELSE "none"]

\* What a synchronous handler reads and writes.
PageState ==
    [localStorage |-> localStorage, text |-> text, href |-> href,
     display |-> display]

----------------------------------------------------------------------------
(* Bookkeeping of calls and requests *)

InFlight == {i \in 1..Len(calls) : calls[i].pc \in {"fetch", "json"}}

\* A new invocation of handler op that has reached its first await.
NewCall(op) ==
    [op |-> op, pc |-> "fetch", err |-> "", res |-> NoRes, inflight |-> InFlight]

NewRequest(method, path, headers, body) ==
    [call |-> Len(calls) + 1, method |-> method, path |-> path,
     headers |-> headers, body |-> body]

\* fetch(url, options) from handler op: the request leaves, the handler suspends.
Fetch(op, method, path, headers, body) ==
    /\ Len(calls) < MaxCalls
    /\ calls' = Append(calls, NewCall(op))
    /\ requests' = Append(requests, NewRequest(method, path, headers, body))

PathOf(i) == (CHOOSE r \in {requests[n] : n \in 1..Len(requests)} : r.call = i).path

Awaiting(i, op, pc) ==
    /\ i \in 1..Len(calls)
    /\ calls[i].op = op
    /\ calls[i].pc = pc

\* The awaited promise rejects: the handler ends with an uncaught error.
Threw(i, e) ==
    calls' = [calls EXCEPT ![i].pc = "threw", ![i].err = e]

\* `await fetch` resolves with response r; the handler goes on to res.json().
Fetched(i, r) ==
    calls' = [calls EXCEPT ![i].pc = "json", ![i].res = r]

\* The handler runs to its end.
Done(i) ==
    calls' = [calls EXCEPT ![i].pc = "done"]

\* A header that is not sent, and a request without a body.
NoHeader == "<none>"
NoBody == "<none>"

JSONHeaders == [Authorization |-> NoHeader, ContentType |-> "application/json"]

\* `await fetch` of call i settles: it rejects (no response), or resolves with
\* whatever the remote API answers, success or not.
FetchSettles(i) ==
    \/ Threw(i, "network")
    \/ \E r \in Responses(PathOf(i)) : Fetched(i, r)

----------------------------------------------------------------------------
(* Multi-page client: login, register, logout *)

\* login, lines 2-9: POST /auth/login with the form's credentials.
login ==
    /\ \E e \in Emails, p \in Passwords :
          Fetch("login", "POST", "/auth/login", JSONHeaders,
                "{email:" \o JSONValue(e) \o ";password:" \o JSONValue(p) \o ";}")
    /\ UNCHANGED <<localStorage, text, alerts, href, display>>

\* A login that sends its request once more when it got no response.
login_fetched_retries(i) ==
    /\ Awaiting(i, "login", "fetch")
    /\ \/ /\ FetchSettles(i)
          /\ UNCHANGED requests
       \/ /\ Cardinality({n \in 1..Len(requests) : requests[n].call = i}) = 1
          /\ requests' = Append(requests,
                 CHOOSE r \in {requests[n] : n \in 1..Len(requests)} : r.call = i)
          /\ UNCHANGED calls
    /\ UNCHANGED <<localStorage, text, alerts, href, display>>

\* login, line 2: `await fetch` settles.
login_fetched(i) ==
    /\ Awaiting(i, "login", "fetch")
    /\ FetchSettles(i)
    /\ UNCHANGED <<localStorage, requests, text, alerts, href, display>>

\* First response wins: tokens already stored are kept.
login_store_keepsStored(store, data) ==
    IF getItem(store, "access_token") = Null
    THEN setItem(setItem(store, "access_token", data.access_token),
                 "refresh_token", data.refresh_token)
    ELSE store

\* A login that writes the refresh token only where none is stored.
login_store_keepsRefresh(store, data) ==
    IF getItem(store, "refresh_token") = Null
    THEN setItem(setItem(store, "access_token", data.access_token),
                 "refresh_token", data.refresh_token)
    ELSE setItem(store, "access_token", data.access_token)

\* login, lines 12-13: the two setItem calls.
login_store(store, data) ==
    setItem(setItem(store, "access_token", data.access_token),
            "refresh_token", data.refresh_token)

\* A login whose continuation drops its tokens when a login called after it
\* has already stored its own: the latest request wins.
login_parsed_latestRequestWins(i) ==
    /\ Awaiting(i, "login", "json")
    /\ IF calls[i].res.json
       THEN /\ localStorage' =
                  IF \E j \in 1..Len(calls) :
                        j > i /\ calls[j].op = "login" /\ calls[j].pc = "done"
                  THEN localStorage
                  ELSE login_store(localStorage, calls[i].res)
            /\ href' = "dashboard.html"
            /\ Done(i)
       ELSE /\ Threw(i, "syntax")
            /\ UNCHANGED <<localStorage, href>>
    /\ UNCHANGED <<requests, text, alerts, display>>

\* login, lines 11-14: `await res.json()` settles, tokens are stored, redirect.
login_parsed(i) ==
    /\ Awaiting(i, "login", "json")
    /\ IF calls[i].res.json
       THEN /\ localStorage' = login_store(localStorage, calls[i].res)
            /\ href' = "dashboard.html"
            /\ Done(i)
       ELSE /\ Threw(i, "syntax")
            /\ UNCHANGED <<localStorage, href>>
    /\ UNCHANGED <<requests, text, alerts, display>>

\* register, lines 18-26: POST /auth/register.
register ==
    /\ \E e \in Emails, u \in Usernames, p \in Passwords :
          Fetch("register", "POST", "/auth/register", JSONHeaders,
                "{email:" \o JSONValue(e) \o ";username:" \o JSONValue(u)
                    \o ";password:" \o JSONValue(p) \o ";}")
    /\ UNCHANGED <<localStorage, text, alerts, href, display>>

\* A register that opens a session with whatever the response holds.
register_fetched_storesToken(i) ==
    /\ Awaiting(i, "register", "fetch")
    /\ \/ /\ Threw(i, "network")
          /\ UNCHANGED <<localStorage, alerts, href>>
       \/ /\ \E r \in Responses(PathOf(i)) :
                /\ calls' = [calls EXCEPT ![i].pc = "done", ![i].res = r]
                /\ localStorage' = login_store(localStorage, r)
          /\ alerts' = Append(alerts, "Registered!")
          /\ href' = "login.html"
    /\ UNCHANGED <<requests, text, display>>

\* register, lines 18-28: `await fetch` settles; the response is never read.
register_fetched(i) ==
    /\ Awaiting(i, "register", "fetch")
    /\ \/ /\ Threw(i, "network")
          /\ UNCHANGED <<alerts, href>>
       \/ /\ \E r \in Responses(PathOf(i)) :
                calls' = [calls EXCEPT ![i].pc = "done", ![i].res = r]
          /\ alerts' = Append(alerts, "Registered!")
          /\ href' = "login.html"
    /\ UNCHANGED <<localStorage, requests, text, display>>

\* logout, lines 32-33, as a function of the page state.
logout_run(s) ==
    [s EXCEPT !.localStorage = clear(s.localStorage), !.href = "login.html"]

\* A logout that also tells the remote API.
logout_notifiesServer ==
    /\ Fetch("logout", "POST", "/auth/logout", JSONHeaders, NoBody)
    /\ localStorage' = logout_run(PageState).localStorage
    /\ href' = logout_run(PageState).href
    /\ UNCHANGED <<text, alerts, display>>

\* logout, lines 31-34.
logout ==
    /\ localStorage' = logout_run(PageState).localStorage
    /\ href' = logout_run(PageState).href
    /\ UNCHANGED <<calls, requests, text, alerts, display>>

----------------------------------------------------------------------------
(* Multi-page client: authHeader and requireAuth *)

\* authHeader(): the headers of an authenticated request.
authHeader(store) ==
    [Authorization |-> "Bearer " \o StringOf(getItem(store, "access_token")),
     ContentType |-> "application/json"]

\* requireAuth(): TRUE when the caller may go on, FALSE when it fails as
\* unauthenticated.
requireAuth(store) == getItem(store, "access_token") # Null

----------------------------------------------------------------------------
(* Multi-page client: refresh, logoutAll *)

\* refresh, lines 50-56: POST /auth/refresh with the stored refresh token.
refresh ==
    /\ Fetch("refresh", "POST", "/auth/refresh", JSONHeaders,
             "{refresh_token:"
                 \o JSONValue(getItem(localStorage, "refresh_token")) \o ";}")
    /\ UNCHANGED <<localStorage, text, alerts, href, display>>

\* refresh, line 50: `await fetch` settles.
refresh_fetched(i) ==
    /\ Awaiting(i, "refresh", "fetch")
    /\ FetchSettles(i)
    /\ UNCHANGED <<localStorage, requests, text, alerts, href, display>>

\* A refresh that stores the whole token pair of the response.
refresh_store_rotatesBoth(store, data) ==
    setItem(setItem(store, "access_token", data.access_token),
            "refresh_token", data.refresh_token)

\* refresh, line 58.
refresh_store(store, data) ==
    setItem(store, "access_token", data.access_token)

\* refresh, lines 57-59: `await res.json()` settles.
refresh_parsed(i) ==
    /\ Awaiting(i, "refresh", "json")
    /\ IF calls[i].res.json
       THEN /\ localStorage' = refresh_store(localStorage, calls[i].res)
            /\ alerts' = Append(alerts, "Token refreshed")
            /\ Done(i)
       ELSE /\ Threw(i, "syntax")
            /\ UNCHANGED <<localStorage, alerts>>
    /\ UNCHANGED <<requests, text, href, display>>

\* A logoutAll that clears first and notifies afterwards.
logoutAll_clearsFirst ==
    /\ Fetch("logoutAll", "POST", "/auth/logout-all",
             authHeader(clear(localStorage)), NoBody)
    /\ localStorage' = clear(localStorage)
    /\ UNCHANGED <<text, alerts, href, display>>

\* logoutAll, lines 63-66: POST /auth/logout-all.
logoutAll ==
    /\ Fetch("logoutAll", "POST", "/auth/logout-all",
             authHeader(localStorage), NoBody)
    /\ UNCHANGED <<localStorage, text, alerts, href, display>>

\* logoutAll, lines 63-67: `await fetch` settles; logout() runs only if it
\* resolved.
logoutAll_fetched(i) ==
    /\ Awaiting(i, "logoutAll", "fetch")
    /\ \/ /\ Threw(i, "network")
          /\ UNCHANGED <<localStorage, href>>
       \/ /\ \E r \in Responses(PathOf(i)) :
                calls' = [calls EXCEPT ![i].pc = "done", ![i].res = r]
          /\ localStorage' = logout_run(PageState).localStorage
          /\ href' = logout_run(PageState).href
    /\ UNCHANGED <<requests, text, alerts, display>>

----------------------------------------------------------------------------
(* Multi-page client: profile.js *)

\* loadProfile, lines 2-5: requireAuth(), then GET /users/me.
loadProfile ==
    /\ IF requireAuth(localStorage)
       THEN Fetch("loadProfile", "GET", "/users/me",
                  authHeader(localStorage), NoBody)
       ELSE /\ Len(calls) < MaxCalls
            /\ calls' = Append(calls, [NewCall("loadProfile") EXCEPT
                                          !.pc = "threw",
                                          !.err = "unauthenticated"])
            /\ UNCHANGED requests
    /\ UNCHANGED <<localStorage, text, alerts, href, display>>

\* loadProfile, line 3: `await fetch` settles.
loadProfile_fetched(i) ==
    /\ Awaiting(i, "loadProfile", "fetch")
    /\ FetchSettles(i)
    /\ UNCHANGED <<localStorage, requests, text, alerts, href, display>>

\* loadProfile, lines 6-7: `await res.json()` settles.
loadProfile_parsed(i) ==
    /\ Awaiting(i, "loadProfile", "json")
    /\ IF calls[i].res.json
       THEN /\ text' = [text EXCEPT !["info"] = JSONstringify(calls[i].res)]
            /\ Done(i)
       ELSE /\ Threw(i, "syntax")
            /\ UNCHANGED text
    /\ UNCHANGED <<localStorage, requests, alerts, href, display>>

\* updateProfile, lines 11-15: PATCH /users/me; no requireAuth() call.
updateProfile ==
    /\ \E u \in Usernames :
          Fetch("updateProfile", "PATCH", "/users/me",
                authHeader(localStorage),
                "{username:" \o JSONValue(u) \o ";}")
    /\ UNCHANGED <<localStorage, text, alerts, href, display>>

\* updateProfile, lines 11-16: `await fetch` settles; the response is never read.
updateProfile_fetched(i) ==
    /\ Awaiting(i, "updateProfile", "fetch")
    /\ \/ /\ Threw(i, "network")
          /\ UNCHANGED alerts
       \/ /\ \E r \in Responses(PathOf(i)) :
                calls' = [calls EXCEPT ![i].pc = "done", ![i].res = r]
          /\ alerts' = Append(alerts, "Updated")
    /\ UNCHANGED <<localStorage, requests, text, href, display>>

----------------------------------------------------------------------------
(* Single-page client: app.js *)

\* A showPage that shows a section and hides none.
window_showPage_keepsShown(id) ==
    /\ display' = [display EXCEPT ![id] = "block"]
    /\ UNCHANGED <<localStorage, calls, requests, text, alerts, href>>

\* window.showPage, lines 4-7, from the nav buttons.
window_showPage(id) ==
    /\ display' = showPage(id)
    /\ UNCHANGED <<localStorage, calls, requests, text, alerts, href>>

\* setToken, lines 12-14.
setToken(store, data) ==
    setItem(store, "access", data.access_token)

\* A token() that reads the multi-page client's entry.
token_otherKey(store) == getItem(store, "access_token")

\* token, lines 16-18.
token(store) == getItem(store, "access")

\* window.login, lines 22-29: POST /auth/login.
window_login ==
    /\ \E e \in Emails, p \in Passwords :
          Fetch("window.login", "POST", "/auth/login", JSONHeaders,
                "{email:" \o JSONValue(e) \o ";password:" \o JSONValue(p) \o ";}")
    /\ UNCHANGED <<localStorage, text, alerts, href, display>>

\* window.login, line 22: `await fetch` settles.
window_login_fetched(i) ==
    /\ Awaiting(i, "window.login", "fetch")
    /\ FetchSettles(i)
    /\ UNCHANGED <<localStorage, requests, text, alerts, href, display>>

\* window.login, lines 31-34: `await res.json()` settles.
window_login_parsed(i) ==
    /\ Awaiting(i, "window.login", "json")
    /\ IF calls[i].res.json
       THEN /\ localStorage' = setToken(localStorage, calls[i].res)
            /\ text' = [text EXCEPT
                           !["loginResponse"] = JSONstringify(calls[i].res)]
            /\ display' = showPage("tools")
            /\ Done(i)
       ELSE /\ Threw(i, "syntax")
            /\ UNCHANGED <<localStorage, text, display>>
    /\ UNCHANGED <<requests, alerts, href>>

\* window.register, lines 38-46: POST /auth/register.
window_register ==
    /\ \E e \in Emails, u \in Usernames, p \in Passwords :
          Fetch("window.register", "POST", "/auth/register", JSONHeaders,
                "{email:" \o JSONValue(e) \o ";username:" \o JSONValue(u)
                    \o ";password:" \o JSONValue(p) \o ";}")
    /\ UNCHANGED <<localStorage, text, alerts, href, display>>

\* window.register, line 38: `await fetch` settles.
window_register_fetched(i) ==
    /\ Awaiting(i, "window.register", "fetch")
    /\ FetchSettles(i)
    /\ UNCHANGED <<localStorage, requests, text, alerts, href, display>>

\* window.register, line 48: `await res.json()` settles.
window_register_parsed(i) ==
    /\ Awaiting(i, "window.register", "json")
    /\ IF calls[i].res.json
       THEN /\ text' = [text EXCEPT
                           !["registerResponse"] = JSONstringify(calls[i].res)]
            /\ Done(i)
       ELSE /\ Threw(i, "syntax")
            /\ UNCHANGED text
    /\ UNCHANGED <<localStorage, requests, alerts, href, display>>

\* window.getProfile, lines 53-57: GET /users/me with the bearer header.
window_getProfile ==
    /\ Fetch("window.getProfile", "GET", "/users/me",
             [Authorization |-> "Bearer " \o StringOf(token(localStorage)),
              ContentType |-> NoHeader],
             NoBody)
    /\ UNCHANGED <<localStorage, text, alerts, href, display>>

\* window.getProfile, line 53: `await fetch` settles.
window_getProfile_fetched(i) ==
    /\ Awaiting(i, "window.getProfile", "fetch")
    /\ FetchSettles(i)
    /\ UNCHANGED <<localStorage, requests, text, alerts, href, display>>

\* window.getProfile, line 59: `await res.json()` settles.
window_getProfile_parsed(i) ==
    /\ Awaiting(i, "window.getProfile", "json")
    /\ IF calls[i].res.json
       THEN /\ text' = [text EXCEPT
                           !["toolsResponse"] = JSONstringify(calls[i].res)]
            /\ Done(i)
       ELSE /\ Threw(i, "syntax")
            /\ UNCHANGED text
    /\ UNCHANGED <<localStorage, requests, alerts, href, display>>

\* window.logout, lines 63-65, as a function of the page state.
window_logout_run(s) ==
    [s EXCEPT !.localStorage = clear(s.localStorage),
              !.text = [s.text EXCEPT !["toolsResponse"] = "Logged out"],
              !.display = showPage("home")]

\* window.logout, lines 62-66.
window_logout ==
    /\ localStorage' = window_logout_run(PageState).localStorage
    /\ text' = window_logout_run(PageState).text
    /\ display' = window_logout_run(PageState).display
    /\ UNCHANGED <<calls, requests, alerts, href>>

----------------------------------------------------------------------------
(* The client *)

\* What an earlier session of the other client can have left in the storage:
\* nothing, or the tokens of an accepted login.
Leftover(c) ==
    {[k \in Keys |-> Null],
     IF c = "spa"
     THEN login_store([k \in Keys |-> Null],
                      CHOOSE r \in LoginOK : r.access_token = "AT1")
     ELSE setToken([k \in Keys |-> Null],
                   CHOOSE r \in LoginOK : r.access_token = "AT1")}

\* A page of one client has just loaded: nothing called yet, nothing of this
\* client stored, and (app.js line 9) "home" shown.
Loaded ==
    /\ client \in {"pages", "spa"}
    /\ localStorage \in Leftover(client)
    /\ calls = <<>>
    /\ requests = <<>>
    /\ text = [e \in Elements |-> ""]
    /\ alerts = <<>>
    /\ href = "index.html"
    /\ display = showPage("home")

Init == Loaded /\ lastLogout = [recorded |-> FALSE, ran |-> FALSE, calls |-> 0]

\* The history of logout, where it is recorded.
LogoutRecorded ==
    lastLogout' = IF lastLogout.recorded
                  THEN [lastLogout EXCEPT !.ran = TRUE, !.calls = Len(calls)]
                  ELSE lastLogout

\* A step of the multi-page client that is no logout; one of the single-page
\* client.
InPages == client = "pages" /\ UNCHANGED <<client, lastLogout>>
InSPA == client = "spa" /\ UNCHANGED <<client, lastLogout>>

\* The multi-page client: one of its handlers is called, or goes on after an
\* await.
NextPages ==
    \/ InPages /\ login
    \/ \E i \in 1..Len(calls) : InPages /\ login_fetched(i)
    \/ \E i \in 1..Len(calls) : InPages /\ login_parsed(i)
    \/ InPages /\ register
    \/ \E i \in 1..Len(calls) : InPages /\ register_fetched(i)
    \/ client = "pages" /\ UNCHANGED client /\ logout /\ LogoutRecorded
    \/ InPages /\ refresh
    \/ \E i \in 1..Len(calls) : InPages /\ refresh_fetched(i)
    \/ \E i \in 1..Len(calls) : InPages /\ refresh_parsed(i)
    \/ InPages /\ logoutAll
    \/ \E i \in 1..Len(calls) : InPages /\ logoutAll_fetched(i)
    \/ InPages /\ loadProfile
    \/ \E i \in 1..Len(calls) : InPages /\ loadProfile_fetched(i)
    \/ \E i \in 1..Len(calls) : InPages /\ loadProfile_parsed(i)
    \/ InPages /\ updateProfile
    \/ \E i \in 1..Len(calls) : InPages /\ updateProfile_fetched(i)

\* The single-page client.
NextSPA ==
    \/ \E id \in Pages : InSPA /\ window_showPage(id)
    \/ InSPA /\ window_login
    \/ \E i \in 1..Len(calls) : InSPA /\ window_login_fetched(i)
    \/ \E i \in 1..Len(calls) : InSPA /\ window_login_parsed(i)
    \/ InSPA /\ window_register
    \/ \E i \in 1..Len(calls) : InSPA /\ window_register_fetched(i)
    \/ \E i \in 1..Len(calls) : InSPA /\ window_register_parsed(i)
    \/ InSPA /\ window_getProfile
    \/ \E i \in 1..Len(calls) : InSPA /\ window_getProfile_fetched(i)
    \/ \E i \in 1..Len(calls) : InSPA /\ window_getProfile_parsed(i)
    \/ client = "spa" /\ UNCHANGED client /\ window_logout /\ LogoutRecorded

\* A session of either client.
Next == NextPages \/ NextSPA

Spec == Init /\ [][Next]_vars

\* A session of the multi-page client; a session of the single-page client.
InitPages == Init /\ client = "pages"
InitSPA == Init /\ client = "spa"
SpecPages == InitPages /\ [][NextPages]_vars
SpecSPA == InitSPA /\ [][NextSPA]_vars

\* A session of either client, with the history of logout recorded.
InitHistory == Loaded /\ lastLogout = [recorded |-> TRUE, ran |-> FALSE, calls |-> 0]
SpecHistory == InitHistory /\ [][Next]_vars

----------------------------------------------------------------------------
(* Vocabulary of the properties *)

\* Call i of handler op ends at this step, normally or with an error.
Completes(i, op) ==
    /\ i \in 1..Len(calls)
    /\ calls[i].op = op
    /\ calls[i].pc \in {"fetch", "json"}
    /\ calls'[i].pc \in {"done", "threw"}

\* Call i of handler op runs to its end at this step on a success response.
Succeeds(i, op) ==
    /\ Completes(i, op)
    /\ calls'[i].pc = "done"
    /\ Success(calls'[i].res)

\* Call i of handler op ends at this step having received a non-success
\* response.
Fails(i, op) ==
    /\ Completes(i, op)
    /\ calls'[i].res.status # 0
    /\ ~Success(calls'[i].res)

\* The entry each client keeps its access token in.
AccessKey(op) ==
    IF op \in {"window.login", "window.getProfile", "window.register"}
    THEN "access" ELSE "access_token"

AllAbsent(store) == \A k \in Keys : store[k] = Null

\* Calls i and j were both awaiting a response at some moment.
Overlap(i, j) ==
    \/ i < j /\ i \in calls[j].inflight
    \/ j < i /\ j \in calls[i].inflight

RequestsOf(i) == {n \in 1..Len(requests) : requests[n].call = i}

----------------------------------------------------------------------------
(* C1: login on success *)

----------------------------------------------------------------------------
(* C2: login on failure *)

\* C2: a login that receives a non-success response ends with the stored
\* tokens exactly as they were, and window.login shows the failure body.
C2_FailedLoginKeepsTokens ==
    [][\A i \in 1..Len(calls) : \A op \in {"login", "window.login"} :
          Fails(i, op) =>
              /\ localStorage' = localStorage
              /\ (op = "window.login" /\ calls'[i].pc = "done") =>
                     text'["loginResponse"] = JSONstringify(calls'[i].res)
      ]_vars

----------------------------------------------------------------------------
(* C3: logout *)

\* C3: in every reachable state, logout (of either client) leaves every
\* stored token absent, and running it a second time changes nothing more.
C3_LogoutClearsAndIsIdempotent ==
    /\ AllAbsent(logout_run(PageState).localStorage)
    /\ logout_run(logout_run(PageState)) = logout_run(PageState)
    /\ AllAbsent(window_logout_run(PageState).localStorage)
    /\ window_logout_run(window_logout_run(PageState))
           = window_logout_run(PageState)

\* A login stored its tokens and a logout then removed them.
C3_Witness ==
    /\ Len(calls) = 1
    /\ calls[1].op = "login" /\ calls[1].pc = "done" /\ Success(calls[1].res)
    /\ href = "login.html"
    /\ AllAbsent(localStorage)

----------------------------------------------------------------------------
(* C4: profile operations without an access token *)

\* The handler invoked at this step found no access token stored.
InvokedWithoutToken ==
    \/ loadProfile /\ getItem(localStorage, "access_token") = Null
    \/ updateProfile /\ getItem(localStorage, "access_token") = Null
    \/ window_getProfile /\ getItem(localStorage, "access") = Null

\* C4: loadProfile, updateProfile or window.getProfile invoked while no access
\* token is stored ends as unauthenticated and issues no HTTP request.
C4_NoTokenNoRequest ==
    [][InvokedWithoutToken =>
          /\ requests' = requests
          /\ calls'[Len(calls')].pc = "threw"
          /\ calls'[Len(calls')].err = "unauthenticated"
      ]_vars

----------------------------------------------------------------------------
(* C5, C6: refresh *)

\* C5: refresh sends the refresh token stored when it is invoked, and a
\* refresh answered with {access_token: A2} ends with "access_token" = A2 and
\* "refresh_token" as it was just before.
C5_RefreshRotatesAccessOnly ==
    [][/\ refresh =>
             requests'[Len(requests')].body =
                 "{refresh_token:"
                     \o JSONValue(localStorage["refresh_token"]) \o ";}"
       /\ \A i \in 1..Len(calls) :
             Succeeds(i, "refresh") =>
                 /\ localStorage'["access_token"] = calls'[i].res.access_token
                 /\ localStorage'["refresh_token"] = localStorage["refresh_token"]
      ]_vars

\* Login stored AT1/RT1; refresh sent RT1 and was answered with AT2.
C5_Witness ==
    /\ Len(calls) = 2
    /\ calls[1].op = "login" /\ calls[1].pc = "done"
    /\ calls[1].res.access_token = "AT1"
    /\ calls[2].op = "refresh" /\ calls[2].pc = "done"
    /\ calls[2].res.access_token = "AT2"
    /\ requests[2].body = "{refresh_token:'RT1';}"
    /\ localStorage["access_token"] = "AT2"
    /\ localStorage["refresh_token"] = "RT1"

\* C6: a refresh that receives a non-success response ends with the stored
\* access token and refresh token as they were.
C6_FailedRefreshKeepsTokens ==
    [][\A i \in 1..Len(calls) :
          Fails(i, "refresh") => localStorage' = localStorage
      ]_vars

----------------------------------------------------------------------------
(* C7: logoutAll *)

\* C7: when a logoutAll ends, whether its request succeeded, was refused or
\* got no response, every stored token is absent.
C7_LogoutAllAlwaysClears ==
    [][\A i \in 1..Len(calls) :
          Completes(i, "logoutAll") => AllAbsent(localStorage')
      ]_vars

----------------------------------------------------------------------------
(* C8: the bearer header *)

AuthenticatedOps ==
    {"loadProfile", "updateProfile", "logoutAll", "window.getProfile"}

\* C8: a request of loadProfile, updateProfile, logoutAll or window.getProfile
\* issued while its client has access token T stored carries
\* Authorization: Bearer T.
C8_BearerIsStoredToken ==
    [][(Len(requests') = Len(requests) + 1
           /\ calls'[Len(calls')].op \in AuthenticatedOps
           /\ localStorage[AccessKey(calls'[Len(calls')].op)] # Null)
          => requests'[Len(requests')].headers.Authorization =
                 "Bearer " \o localStorage[AccessKey(calls'[Len(calls')].op)]
      ]_vars

\* window.login was answered with AT1 and the getProfile that followed sent
\* Bearer AT1.
C8_Witness ==
    /\ Len(calls) = 2
    /\ calls[1].op = "window.login" /\ calls[1].pc = "done"
    /\ calls[1].res.access_token = "AT1"
    /\ calls[2].op = "window.getProfile"
    /\ calls[2].inflight = {}
    /\ requests[2].headers.Authorization = "Bearer AT1"

----------------------------------------------------------------------------
(* C9: register *)

\* A step of register or window.register.
RegisterStep ==
    \/ register
    \/ window_register
    \/ \E i \in 1..Len(calls) :
          \/ register_fetched(i)
          \/ window_register_fetched(i)
          \/ window_register_parsed(i)

\* C9: no step of register or window.register, whatever the API answers,
\* changes a stored token.
C9_RegisterKeepsTokens ==
    [][RegisterStep => localStorage' = localStorage]_vars

\* Two registrations were accepted and there is still no session.
C9_Witness ==
    /\ Len(calls) = 2
    /\ \A i \in {1, 2} :
          /\ calls[i].op \in {"register", "window.register"}
          /\ calls[i].pc = "done"
          /\ Success(calls[i].res)
    /\ AllAbsent(localStorage)

----------------------------------------------------------------------------
(* C10: overlapping logins *)

\* C10: when a login is answered with success after an overlapping login of
\* the same client has already been answered with success, the tokens stored
\* are those of the later answer, whichever request was issued first.
C10_LastResponseWins ==
    [][\A j \in 1..Len(calls) :
          /\ (Succeeds(j, "login")
                 /\ \E i \in 1..Len(calls) :
                       /\ Overlap(i, j)
                       /\ calls[i].op = "login"
                       /\ calls[i].pc = "done"
                       /\ Success(calls[i].res))
                => /\ localStorage'["access_token"] = calls'[j].res.access_token
                   /\ localStorage'["refresh_token"] = calls'[j].res.refresh_token
          /\ (Succeeds(j, "window.login")
                 /\ \E i \in 1..Len(calls) :
                       /\ Overlap(i, j)
                       /\ calls[i].op = "window.login"
                       /\ calls[i].pc = "done"
                       /\ Success(calls[i].res))
                => localStorage'["access"] = calls'[j].res.access_token
      ]_vars

\* The second login was issued while the first awaited its response, both
\* were accepted with different tokens, and the tokens stored are those of the
\* first request: its response arrived last.
C10_Witness ==
    /\ Len(calls) = 2
    /\ \A i \in {1, 2} :
          calls[i].op = "login" /\ calls[i].pc = "done" /\ Success(calls[i].res)
    /\ calls[2].inflight = {1}
    /\ calls[1].res.access_token # calls[2].res.access_token
    /\ localStorage["access_token"] = calls[1].res.access_token
    /\ localStorage["refresh_token"] = calls[1].res.refresh_token

----------------------------------------------------------------------------
(* C11: after logout *)

\* A login called after the last logout has been accepted and has run to its
\* end.
LoggedInSinceLogout ==
    \E j \in 1..Len(calls) :
        /\ j > lastLogout.calls
        /\ calls[j].op \in {"login", "window.login"}
        /\ calls[j].pc = "done"
        /\ Success(calls[j].res)

\* C11: once logout has run, the client's access token stays absent until a
\* login called after that logout is accepted; a login or refresh that was
\* awaiting its response when logout ran does not store a token.
C11_AbsentUntilNextLogin ==
    (lastLogout.ran /\ ~LoggedInSinceLogout) =>
        localStorage[IF client = "spa" THEN "access" ELSE "access_token"] = Null

----------------------------------------------------------------------------
(* C12: no response at all *)

AsyncOps ==
    {"login", "register", "refresh", "logoutAll", "loadProfile",
     "updateProfile", "window.login", "window.register", "window.getProfile"}

\* C12: when the request of an operation gets no response, the operation ends
\* at a step that shows the user something (an output element or an alert
\* changes), and what it shows is not one of the success messages.
C12_NetworkFailureIsShown ==
    [][\A i \in 1..Len(calls) : \A op \in AsyncOps :
          (Completes(i, op) /\ calls'[i].err = "network") =>
              /\ text' # text \/ alerts' # alerts
              /\ alerts' # alerts =>
                     alerts'[Len(alerts')]
                         \notin {"Registered!", "Updated", "Token refreshed"}
      ]_vars

----------------------------------------------------------------------------
(* C13: logout is local *)

\* C13: a step of logout or window.logout hands no request to fetch and
\* starts no call, in any state.
C13_LogoutIssuesNoRequest ==
    [][(logout \/ window_logout) =>
          /\ requests' = requests
          /\ calls' = calls
      ]_vars

\* window.login was accepted, window.logout then ran, and the login request
\* is the only request ever issued.
C13_Witness ==
    /\ Len(calls) = 1
    /\ calls[1].op = "window.login" /\ calls[1].pc = "done"
    /\ Success(calls[1].res)
    /\ text["toolsResponse"] = "Logged out"
    /\ localStorage["access"] = Null
    /\ Len(requests) = 1
    /\ requests[1].path = "/auth/login"

----------------------------------------------------------------------------
(* C14: the order of logoutAll *)

\* C14: logoutAll hands its request to fetch with the tokens still stored, the
\* request bearing the access token stored at that moment; a logoutAll changes
\* the storage only at the step where its fetch resolved with a response, and
\* leaves it as it is when there was none.
C14_NotifyThenClear ==
    [][/\ logoutAll =>
             /\ localStorage' = localStorage
             /\ requests'[Len(requests')].path = "/auth/logout-all"
             /\ requests'[Len(requests')].headers.Authorization =
                    "Bearer " \o StringOf(localStorage["access_token"])
       /\ \A i \in 1..Len(calls) :
             Completes(i, "logoutAll") =>
                 /\ localStorage' # localStorage => calls'[i].res.status # 0
                 /\ calls'[i].err = "network" => localStorage' = localStorage
      ]_vars

\* A login was accepted with AT1/RT1; logoutAll has then been called and awaits
\* its response: both tokens are still stored and the request bears AT1.
C14_Witness ==
    /\ Len(calls) = 2
    /\ calls[1].op = "login" /\ calls[1].pc = "done"
    /\ calls[2].op = "logoutAll" /\ calls[2].pc = "fetch"
    /\ localStorage["access_token"] = "AT1"
    /\ localStorage["refresh_token"] = "RT1"
    /\ requests[2].path = "/auth/logout-all"
    /\ requests[2].headers.Authorization = "Bearer AT1"

----------------------------------------------------------------------------
(* C15: the token pair of login *)

\* The stored tokens are the two that one login response gave.
FromOneLogin(store) ==
    \E i \in 1..Len(calls) :
        /\ calls[i].op = "login"
        /\ calls[i].pc = "done"
        /\ store["access_token"] = StringOf(calls[i].res.access_token)
        /\ store["refresh_token"] = StringOf(calls[i].res.refresh_token)

\* The stored access token is one a refresh has written.
FromRefresh(store) ==
    \E i \in 1..Len(calls) :
        /\ calls[i].op = "refresh"
        /\ calls[i].pc = "done"
        /\ store["access_token"] = StringOf(calls[i].res.access_token)

\* C15: whenever both tokens are stored, they are the pair of one login
\* response, unless a refresh has since replaced the access token; overlapping
\* logins and logout never leave the access token of one login response beside
\* the refresh token of another.
C15_TokenPairNeverTorn ==
    (localStorage["access_token"] # Null /\ localStorage["refresh_token"] # Null)
        => FromOneLogin(localStorage) \/ FromRefresh(localStorage)

\* Two overlapping logins were accepted with different pairs, the response of
\* the second arrived last, and the pair stored is that of the second.
C15_Witness ==
    /\ Len(calls) = 2
    /\ \A i \in {1, 2} :
          calls[i].op = "login" /\ calls[i].pc = "done" /\ Success(calls[i].res)
    /\ calls[2].inflight = {1}
    /\ calls[1].res.access_token # calls[2].res.access_token
    /\ localStorage["access_token"] = calls[2].res.access_token
    /\ localStorage["refresh_token"] = calls[2].res.refresh_token

----------------------------------------------------------------------------
(* C16: one request per invocation *)

\* C16: every invocation of a handler has handed at most one request to
\* fetch, whatever became of it (awaiting, answered with success or with a
\* failure status, or left without a response), and no request belongs to no
\* invocation.
C16_AtMostOneRequest ==
    /\ \A i \in 1..Len(calls) : Cardinality(RequestsOf(i)) <= 1
    /\ \A n \in 1..Len(requests) : requests[n].call \in 1..Len(calls)

\* One invocation ended without a response and another was refused by the
\* API; each has issued exactly one request.
C16_Witness ==
    /\ Len(calls) = 2
    /\ calls[1].pc = "threw" /\ calls[1].err = "network"
    /\ calls[2].pc = "done" /\ calls[2].res.status = 401
    /\ Len(requests) = 2
    /\ \A i \in {1, 2} : Cardinality(RequestsOf(i)) = 1

----------------------------------------------------------------------------
(* C17: the visible section *)

Visible == {p \in Pages : display[p] = "block"}

\* window.login runs to its end at this step.
LoginShowsTools ==
    \E i \in 1..Len(calls) :
        Completes(i, "window.login") /\ calls'[i].pc = "done"

\* C17: in the single-page client exactly one section is visible in every
\* state; after showPage(id) it is id, after a window.login that ran to its
\* end it is tools, after window.logout it is home, and no other step changes
\* what is visible.
C17_OneSectionVisible ==
    /\ [](Cardinality(Visible) = 1)
    /\ [][/\ \A id \in Pages : (window_showPage(id) => Visible' = {id})
          /\ (LoginShowsTools => Visible' = {"tools"})
          /\ (window_logout => Visible' = {"home"})
          /\ (display' # display =>
                 \/ \E id \in Pages : window_showPage(id)
                 \/ LoginShowsTools
                 \/ window_logout)
         ]_vars

\* The register section was shown while a window.login awaited its response;
\* the login then ran to its end, and tools is the one visible section.
C17_Witness ==
    /\ Len(calls) = 2
    /\ calls[1].op = "window.login" /\ calls[1].pc = "done"
    /\ calls[2].op = "window.register" /\ calls[2].pc = "threw"
    /\ Visible = {"tools"}
    /\ text["loginResponse"] # ""

====
